---- MODULE Spec2Model ----
(***************************************************************************)
(* Model of src/js/content.js: the GitLab API client (GitLabApiClient) and *)
(* the content script (ContentScript) that waits for the merge request     *)
(* list to be rendered, fetches the merge requests' details, writes them   *)
(* on the list items and toggles the WIP status of a merge request.        *)
(*                                                                         *)
(* Strings are sequences of tokens (each token a TLA+ string), so that     *)
(* trim(), replace(), includes() and number-to-string conversion are       *)
(* computed and not assumed.                                               *)
(***************************************************************************)
EXTENDS Integers, Sequences, FiniteSets, TLC

VARIABLES
  currentProjectId,  \* body[data-project-id] of the page: TRUE when present
  baseProjectUrl,    \* a project link / URL is found on the page: TRUE when present
  csrfToken,         \* meta[name=csrf-token] is present: apiClient.csrfToken
  preferences,       \* None, or Some(preferences handed to the getAll callback)
  pc,                \* where the run of the content script is
  attempts,          \* the closure variable of waitForMergeRequestsAndProcess
  timerPending,      \* a setTimeout(checkForMergeRequests, 1000) is scheduled
  page,              \* the list items as the host application rendered them
  items,             \* the list items of the live document, in document order
  calls,             \* one record per sendRequest invocation, in call order
  debugDiv,          \* the element appended by addDebugElement is in the document
  response,          \* None, or Some(batch handed to updateMergeRequestsNodes)
  matchLog,          \* per processed record: the index of the node found, 0 if none
  inflight,          \* toggles whose update is pending: [item, call]
  uncaught,          \* number of exceptions that left a handler uncaught
  snap,              \* per item: annotated (title, isWip) at start and after each successful toggle
  ticket,            \* None, or Some(value returned by findFirstJiraTicketId)
  clipboard,         \* None, or Some(text built by buildMergeRequestInfoText)
  listeners          \* per action: click listeners added to each of its trigger elements

vars == << currentProjectId, baseProjectUrl, csrfToken, preferences, pc, attempts,
           timerPending, page, items, calls, debugDiv, response, matchLog, inflight,
           uncaught, snap, ticket, clipboard, listeners >>

----------------------------------------------------------------------------
(* Bounds of the model *)

MaxItems == 2        \* list items on a page
MaxRecords == 2      \* records in one API response
MaxToggles == 2      \* toggle invocations in one run
MaxTitleLen == 3     \* tokens in an annotated title the toggle starts from
MaxBranchChunks == 3 \* pieces a searched source branch name is made of
MaxTitleChunks == 2  \* pieces a searched title is made of

(* Program constants *)

maxAttempts == 10
MaxTicketLetters == 10   \* the {1,10} of jiraTicketIdRegex

(* The three actions of a list item, and the state in which no click listener
   was added to their trigger elements (button.gmrle-copy-branch-name,
   button.gmrle-copy-mr-info, button.gmrle-toggle-wip-status). *)
Handlers == { "copyBranchName", "copyMergeRequestInfo", "toggleWipStatus" }
NoListeners == [ h \in Handlers |-> 0 ]

(* An optional value (a nullable reference, an element that may not exist) is a
   sequence of length 0 or 1. *)
None == << >>
Some(v) == << v >>

----------------------------------------------------------------------------
(* Strings *)

RECURSIVE TrimLeft(_)
TrimLeft(s) ==
  IF s # << >> /\ Head(s) = " " THEN TrimLeft(Tail(s)) ELSE s

RECURSIVE TrimRight(_)
TrimRight(s) ==
  IF s # << >> /\ s[Len(s)] = " " THEN TrimRight(SubSeq(s, 1, Len(s) - 1)) ELSE s

\* String.prototype.trim
Trim(s) == TrimRight(TrimLeft(s))

\* String.prototype.includes
Includes(s, t) ==
  \E i \in 1..(Len(s) - Len(t) + 1) : SubSeq(s, i, i + Len(t) - 1) = t

\* String.prototype.replace(c, ""): the first occurrence only
ReplaceFirst(s, c) ==
  IF \E i \in 1..Len(s) : s[i] = c
  THEN LET i == CHOOSE j \in 1..Len(s) : s[j] = c /\ \A k \in 1..(j - 1) : s[k] # c
       IN SubSeq(s, 1, i - 1) \o SubSeq(s, i + 1, Len(s))
  ELSE s

\* title.replace(new RegExp("^WIP:"), "")
StripWipMarker(s) ==
  IF s # << >> /\ Head(s) = "WIP:" THEN Tail(s) ELSE s

Digit(d) ==
  CASE d = 0 -> "0" [] d = 1 -> "1" [] d = 2 -> "2" [] d = 3 -> "3" [] d = 4 -> "4"
    [] d = 5 -> "5" [] d = 6 -> "6" [] d = 7 -> "7" [] d = 8 -> "8" [] d = 9 -> "9"

\* the conversion of a number to a string by string concatenation / dataset assignment
RECURSIVE ToStr(_)
ToStr(n) ==
  IF n < 10 THEN << Digit(n) >> ELSE ToStr(n \div 10) \o << Digit(n % 10) >>

\* the conversion of a boolean (or undefined) to a string by dataset assignment
BoolStr(b) ==
  IF b = TRUE THEN << "true" >> ELSE IF b = FALSE THEN << "false" >> ELSE << "undefined" >>

----------------------------------------------------------------------------
(* The document: list items *)

Layouts == { "mrlist", "mr", "testid", "glitem" }

\* the element has the class merge-request
IsMergeRequest(it) == it.layout \in { "mrlist", "mr" }

\* the four selectors of checkForMergeRequests / getCurrentMergeRequestIds, in
\* order: does the selector match the .issuable-reference of the item?
SelectorMatches(sel, it) ==
  /\ it.refs # << >>
  /\ CASE sel = 1 -> it.layout = "mrlist"
       [] sel = 2 -> it.layout \in { "mrlist", "mr" }
       [] sel = 3 -> it.layout = "testid"
       [] sel = 4 -> it.layout = "glitem"

\* document.querySelectorAll(selector): indexes of the items, in document order
RECURSIVE SelectIdx(_, _, _)
SelectIdx(doc, sel, i) ==
  IF i > Len(doc) THEN << >>
  ELSE (IF SelectorMatches(sel, doc[i]) THEN << i >> ELSE << >>)
         \o SelectIdx(doc, sel, i + 1)

\* the loop over the selectors: the result of the first selector that finds
\* something, the (empty) result of the last one otherwise
RECURSIVE FirstSelector(_, _)
FirstSelector(doc, sel) ==
  LET found == SelectIdx(doc, sel, 1)
  IN IF Len(found) > 0 \/ sel = 4 THEN found ELSE FirstSelector(doc, sel + 1)

\* el.textContent.trim().replace("!", "")
IdOfReference(ref) == ReplaceFirst(Trim(ref), "!")

\* (mutation) the references of all items, whichever selector finds them
getCurrentMergeRequestIdsOfAll(doc) ==
  LET els == SelectIdx([ i \in 1..Len(doc) |-> [ doc[i] EXCEPT !.layout = "mrlist" ] ], 1, 1)
  IN [ k \in 1..Len(els) |-> IdOfReference(doc[els[k]].refs[1]) ]

getCurrentMergeRequestIds(doc) ==
  LET els == FirstSelector(doc, 1)
  IN [ k \in 1..Len(els) |-> IdOfReference(doc[els[k]].refs[1]) ]

----------------------------------------------------------------------------
(* Records of the API and markup of the host application *)

\* a merge request as the API returns it
MergeRequest(iid, title, author, wip, branch) ==
  [ id |-> 100 + iid, iid |-> iid, title |-> title,
    web_url |-> << "/mr/" >> \o ToStr(iid), author |-> author,
    state |-> << "opened" >>, source_branch |-> branch,
    target_branch |-> << "main" >>, work_in_progress |-> wip ]

\* a source branch name that starts with a Jira ticket id, in characters
ExampleBranch == << "P", "R", "O", "J", "-", "4", "2", "-", "f", "i", "x" >>

RecordUniverse ==
  { MergeRequest(1, << "a" >>, Some(<< "ann" >>), FALSE, ExampleBranch),
    MergeRequest(2, << "WIP:", " ", "b" >>, None, TRUE, << "feature" >>),
    MergeRequest(12, << "c" >>, Some(<< "cy" >>), FALSE, << "hotfix" >>) }

\* the responses of GET merge_requests: records with distinct iids
Batches ==
  { b \in UNION { [ 1..n -> RecordUniverse ] : n \in 0..MaxRecords } :
      \A i, j \in 1..Len(b) : i # j => b[i].iid # b[j].iid }

\* an element without data-* attributes
EmptyDataset == [ k \in {} |-> << >> ]

\* a list item as the host application renders it
ListItem(layout, refs, id, mainInfo, nativePaths) ==
  [ layout |-> layout,           \* which of the poller's selectors reach it
    refs |-> refs,               \* None, or Some(text of its .issuable-reference)
    dataset |-> IF id = 0 THEN EmptyDataset ELSE ("id" :> ToStr(id)),  \* its data-* attributes
    mainInfo |-> mainInfo,       \* it has an .issuable-main-info element
    nativePaths |-> nativePaths, \* .project-ref-path elements rendered by the host
    blocks |-> << >>,            \* .issuable-info blocks appended to .issuable-main-info
    titleLinks |-> Some(<< "t" >>),  \* None, or Some(text of .merge-request-title-text a)
    disabled |-> FALSE ]         \* its toggle control is disabled

Ref(n) == Some(<< "!" >> \o ToStr(n))

ItemKinds ==
  { ListItem("mrlist", Ref(n), 0, TRUE, 1) : n \in { 1, 2, 12 } }
    \cup { ListItem("mrlist", Ref(1), 101, TRUE, 0),
           ListItem("mrlist", None, 0, TRUE, 0),
           ListItem("mr", Ref(12), 0, FALSE, 1),
           ListItem("testid", Ref(1), 0, TRUE, 0),
           ListItem("glitem", Ref(2), 0, TRUE, 0) }

\* what the host application may render: a non-empty list
Pages == UNION { [ 1..n -> ItemKinds ] : n \in 1..MaxItems }

----------------------------------------------------------------------------
(* The reconciliation *)

MinOf(S) == IF S = {} THEN 0 ELSE CHOOSE i \in S : \A j \in S : i <= j

\* document.querySelector('.merge-request[data-<key>="<val>"]'): index, 0 for null
QueryByAttribute(doc, key, val) ==
  MinOf({ i \in 1..Len(doc) :
            /\ IsMergeRequest(doc[i])
            /\ key \in DOMAIN doc[i].dataset
            /\ doc[i].dataset[key] = val })

\* referenceEl && referenceEl.textContent.includes("!" + mergeRequest.iid)
ReferenceMatches(it, mr) ==
  /\ it.refs # << >>
  /\ Includes(it.refs[1], << "!" >> \o ToStr(mr.iid))

\* the manual scan of all .merge-request nodes
ScanByReference(doc, mr) ==
  MinOf({ i \in 1..Len(doc) : IsMergeRequest(doc[i]) /\ ReferenceMatches(doc[i], mr) })

\* document.querySelector(".merge-request")
QueryAnyMergeRequest(doc) ==
  MinOf({ i \in 1..Len(doc) : IsMergeRequest(doc[i]) })

\* the loop over the five selectors of updateMergeRequestsNodes: index of the
\* node, 0 for null
FindMergeRequestNode(doc, mr) ==
  LET s1 == QueryByAttribute(doc, "qaIssueId", ToStr(mr.id))
      s2 == QueryByAttribute(doc, "id", ToStr(mr.id))
      s3 == QueryByAttribute(doc, "iid", ToStr(mr.iid))
      s4 == ScanByReference(doc, mr)
      s5 == QueryAnyMergeRequest(doc)
  IN IF s1 # 0 THEN s1
     ELSE IF s2 # 0 THEN s2
     ELSE IF s3 # 0 THEN s3
     ELSE IF s4 # 0 THEN s4
     ELSE s5

\* the assignments made before mergeRequest.author.name is evaluated
AttributesBeforeAuthor(mr) ==
  ("title" :> mr.title) @@ ("iid" :> ToStr(mr.iid)) @@ ("url" :> mr.web_url)
    @@ ("diffsUrl" :> (mr.web_url \o << "/diffs" >>))

\* the assignments made from mergeRequest.author.name on
AttributesFromAuthor(mr) ==
  ("authorName" :> mr.author[1]) @@ ("status" :> mr.state)
    @@ ("sourceBranchName" :> mr.source_branch)
    @@ ("targetBranchName" :> mr.target_branch)
    @@ ("isWip" :> BoolStr(mr.work_in_progress))

\* [node, threw]: reading .name of an undefined author throws a TypeError
setDataAttributesToMergeRequestNode(node, mr) ==
  IF mr.author = << >>
  THEN [ node |-> [ node EXCEPT !.dataset = AttributesBeforeAuthor(mr) @@ @ ],
         threw |-> TRUE ]
  ELSE [ node |-> [ node EXCEPT !.dataset =
                      AttributesFromAuthor(mr) @@ AttributesBeforeAuthor(mr) @@ @ ],
         threw |-> FALSE ]

\* the .issuable-info block with the source branch as a .project-ref-path link
InfoBlock(mr) == [ branch |-> mr.source_branch, path |-> TRUE ]

\* (mutation) the block is appended whether .issuable-main-info exists or not
InjectBranchInfoAnywhere(node, mr) == [ node EXCEPT !.blocks = Append(@, InfoBlock(mr)) ]

\* parseHtmlAndAppend on .issuable-main-info, skipped when that element is missing
InjectBranchInfo(node, mr) ==
  IF node.mainInfo THEN [ node EXCEPT !.blocks = Append(@, InfoBlock(mr)) ] ELSE node

\* el.parentNode.removeChild(el) for every .mr-list .merge-request .project-ref-path
removeExistingTargetBranchNodes(doc) ==
  [ i \in 1..Len(doc) |->
      IF doc[i].layout = "mrlist"
      THEN [ doc[i] EXCEPT !.nativePaths = 0,
                           !.blocks = [ k \in 1..Len(@) |-> [ @[k] EXCEPT !.path = FALSE ] ] ]
      ELSE doc[i] ]

\* the body of the forEach callback for one record, on state st = [doc, log, threw]
ProcessMergeRequest(st, mr, display) ==
  LET n == FindMergeRequestNode(st.doc, mr)
  IN IF n = 0
     THEN [ st EXCEPT !.log = Append(@, 0) ]
     ELSE LET w == setDataAttributesToMergeRequestNode(st.doc[n], mr)
          IN IF w.threw
             THEN [ doc |-> [ st.doc EXCEPT ![n] = w.node ],
                    log |-> Append(st.log, n), threw |-> TRUE ]
             ELSE [ doc |-> [ st.doc EXCEPT ![n] =
                               IF display THEN InjectBranchInfo(w.node, mr) ELSE w.node ],
                    log |-> Append(st.log, n), threw |-> FALSE ]

\* mergeRequests.forEach(...): an exception ends the loop
RECURSIVE ForEachMergeRequest(_, _, _, _)
ForEachMergeRequest(st, batch, k, display) ==
  IF k > Len(batch) \/ st.threw THEN st
  ELSE ForEachMergeRequest(ProcessMergeRequest(st, batch[k], display), batch, k + 1, display)

updateMergeRequestsNodes(doc, batch, display) ==
  ForEachMergeRequest([ doc |-> doc, log |-> << >>, threw |-> FALSE ], batch, 1, display)

----------------------------------------------------------------------------
(* The API client *)

\* ["post", "put", "patch"].includes(method.toLowerCase())
IsWrite(method) == method \in { "POST", "PUT", "PATCH" }

\* sendRequest up to its return: the record of the call. outcome "undefined"
\* is the bare return (no promise); sent says that fetch() was called.
sendRequest(method, token, ids, iid, title) ==
  IF IsWrite(method) /\ ~token
  THEN [ method |-> method, ids |-> ids, iid |-> iid, title |-> title, sent |-> 0,
         outcome |-> "undefined", logs |-> 1, alerts |-> 0 ]
  ELSE [ method |-> method, ids |-> ids, iid |-> iid, title |-> title, sent |-> 1,
         outcome |-> "pending", logs |-> 0, alerts |-> 0 ]

\* the promise of the call is fulfilled with the decoded body
Fulfilled(call) == [ call EXCEPT !.outcome = "resolved" ]

\* the promise of the call is rejected: fetchPromise.catch logs and alerts
Rejected(call) ==
  [ call EXCEPT !.outcome = "rejected", !.logs = @ + 1, !.alerts = @ + 1 ]

\* why a call fails: fetch() rejects, response.ok is false, response.json() rejects
Failures == { "network", "status", "decode" }

----------------------------------------------------------------------------
(* The run of the content script *)

Init ==
  /\ currentProjectId \in BOOLEAN
  /\ baseProjectUrl \in BOOLEAN
  /\ csrfToken \in BOOLEAN
  /\ preferences = None
  /\ pc = "boot"
  /\ attempts = 0
  /\ timerPending = FALSE
  /\ page = << >>
  /\ items = << >>
  /\ calls = << >>
  /\ debugDiv = FALSE
  /\ response = None
  /\ matchLog = << >>
  /\ inflight = {}
  /\ uncaught = 0
  /\ snap = << >>
  /\ ticket = None
  /\ clipboard = None
  /\ listeners = NoListeners

\* when the host application may render the list, as the number of attempts made
\* so far: before the first attempt or just before the last one (it may also
\* never render it)
RenderPoints == { 0, maxAttempts - 1 }

\* the host application renders the list
HostRender ==
  /\ pc \in { "boot", "prefsPending", "searching" }
  /\ attempts \in RenderPoints
  /\ items = << >>
  /\ \E p \in Pages : items' = p /\ page' = p
  /\ UNCHANGED << ticket, clipboard, listeners >>
  /\ UNCHANGED << currentProjectId, baseProjectUrl, csrfToken, preferences, pc, attempts,
                  timerPending, calls, debugDiv, response, matchLog, inflight, uncaught,
                  snap >>

\* (mutation) the base project URL is not looked at
CanInitializeWithoutUrl == currentProjectId

\* neither of the two early returns of the constructor is taken
CanInitialize == currentProjectId /\ baseProjectUrl

\* new ContentScript(): addDebugElement, then abort without project id or URL
Construct ==
  /\ pc = "boot"
  /\ debugDiv' = TRUE
  /\ pc' = IF CanInitialize THEN "prefsPending" ELSE "aborted"
  /\ UNCHANGED << ticket, clipboard, listeners >>
  /\ UNCHANGED << currentProjectId, baseProjectUrl, csrfToken, preferences, attempts,
                  timerPending, page, items, calls, response, matchLog, inflight,
                  uncaught, snap >>

\* the 5 s timer of addDebugElement
RemoveDebugElement ==
  /\ debugDiv
  /\ debugDiv' = FALSE
  /\ UNCHANGED << ticket, clipboard, listeners >>
  /\ UNCHANGED << currentProjectId, baseProjectUrl, csrfToken, preferences, pc, attempts,
                  timerPending, page, items, calls, response, matchLog, inflight,
                  uncaught, snap >>

\* (mutation) the test also passes for an empty result
FoundAnyOrNone(els) == Len(els) >= 0

\* mrElements.length > 0
FoundAny(els) == Len(els) > 0

\* (mutation) one attempt too many
ShouldRetryInclusive(n) == n <= maxAttempts

\* attempts < maxAttempts
ShouldRetry(n) == n < maxAttempts

\* one run of the closure checkForMergeRequests, with getCurrentMergeRequestIds
\* and fetchMergeRequestsDetailsThenUpdateUI up to the pending request
checkForMergeRequests ==
  /\ attempts' = attempts + 1
  /\ IF FoundAny(FirstSelector(items, 1))
     THEN /\ calls' = Append(calls, sendRequest("GET", csrfToken,
                                                getCurrentMergeRequestIds(items),
                                                << >>, << >>))
          /\ pc' = "fetching"
          /\ timerPending' = FALSE
     ELSE IF ShouldRetry(attempts')
     THEN /\ timerPending' = TRUE
          /\ pc' = "searching"
          /\ UNCHANGED calls
     ELSE /\ timerPending' = FALSE
          /\ pc' = "exhausted"
          /\ UNCHANGED calls

\* the callback of preferencesManager.getAll: waitForMergeRequestsAndProcess
\* runs the first attempt at once
PreferencesLoaded ==
  /\ pc = "prefsPending"
  /\ \E d \in BOOLEAN : preferences' = Some([ display_source_and_target_branches |-> d ])
  /\ checkForMergeRequests
  /\ UNCHANGED << ticket, clipboard, listeners >>
  /\ UNCHANGED << currentProjectId, baseProjectUrl, csrfToken, page, items, debugDiv,
                  response, matchLog, inflight, uncaught, snap >>

\* the timer set by setTimeout(checkForMergeRequests, 1000) fires
TimerFires ==
  /\ timerPending
  /\ checkForMergeRequests
  /\ UNCHANGED << ticket, clipboard, listeners >>
  /\ UNCHANGED << currentProjectId, baseProjectUrl, csrfToken, preferences, page, items,
                  debugDiv, response, matchLog, inflight, uncaught, snap >>

\* (mutation) the native branch paths are removed whatever the preference says
FetchResolvesAlwaysRemoving ==
  /\ pc = "fetching"
  /\ \E batch \in Batches :
       LET display == preferences[1].display_source_and_target_branches
           st == updateMergeRequestsNodes(removeExistingTargetBranchNodes(items), batch,
                                          display)
       IN /\ response' = Some(batch)
          /\ items' = st.doc
          /\ matchLog' = st.log
          /\ pc' = IF st.threw THEN "updateThrew" ELSE "done"
  /\ calls' = [ calls EXCEPT ![Len(calls)] = Fulfilled(@) ]
  /\ UNCHANGED << ticket, clipboard, listeners >>
  /\ UNCHANGED << currentProjectId, baseProjectUrl, csrfToken, preferences, attempts,
                  timerPending, page, debugDiv, inflight, uncaught, snap >>

\* the .then callback of fetchMergeRequestsDetailsThenUpdateUI; an exception in
\* it is caught by the .catch that follows
FetchResolves ==
  /\ pc = "fetching"
  /\ \E batch \in Batches :
       LET display == preferences[1].display_source_and_target_branches
           cleaned == IF display THEN removeExistingTargetBranchNodes(items) ELSE items
           st == updateMergeRequestsNodes(cleaned, batch, display)
       IN /\ response' = Some(batch)
          /\ items' = st.doc
          /\ matchLog' = st.log
          /\ pc' = IF st.threw THEN "updateThrew" ELSE "done"
  /\ calls' = [ calls EXCEPT ![Len(calls)] = Fulfilled(@) ]
  /\ UNCHANGED << ticket, clipboard, listeners >>
  /\ UNCHANGED << currentProjectId, baseProjectUrl, csrfToken, preferences, attempts,
                  timerPending, page, debugDiv, inflight, uncaught, snap >>

\* (mutation) the native branch paths are removed although the request failed
FetchRejectsAfterRemoval ==
  /\ pc = "fetching"
  /\ pc' = "fetchFailed"
  /\ items' = removeExistingTargetBranchNodes(items)
  /\ calls' = [ calls EXCEPT ![Len(calls)] = Rejected(@) ]
  /\ UNCHANGED << ticket, clipboard, listeners >>
  /\ UNCHANGED << currentProjectId, baseProjectUrl, csrfToken, preferences, attempts,
                  timerPending, page, debugDiv, response, matchLog, inflight,
                  uncaught, snap >>

\* the request fails: sendRequest's catch reports it, the caller's catch logs it
FetchRejects ==
  /\ pc = "fetching"
  /\ \E why \in Failures : pc' = "fetchFailed"
  /\ calls' = [ calls EXCEPT ![Len(calls)] = Rejected(@) ]
  /\ UNCHANGED << ticket, clipboard, listeners >>
  /\ UNCHANGED << currentProjectId, baseProjectUrl, csrfToken, preferences, attempts,
                  timerPending, page, items, debugDiv, response, matchLog, inflight,
                  uncaught, snap >>

Next ==
  \/ HostRender
  \/ Construct
  \/ RemoveDebugElement
  \/ PreferencesLoaded
  \/ TimerFires
  \/ FetchResolves
  \/ FetchRejects

Spec == Init /\ [][Next]_vars

----------------------------------------------------------------------------
(* The WIP toggle *)

\* mergeRequestNode.dataset.isWip == "true"
IsWipFlag(dataset) == "isWip" \in DOMAIN dataset /\ dataset["isWip"] = << "true" >>

\* (mutation) the marker is added whatever the flag says
NewTitleAlwaysMarked(isWip, title) == << "WIP:", " " >> \o Trim(title)

\* the title sent by toggleMergeRequestWipStatus
NewTitle(isWip, title) ==
  IF isWip THEN Trim(StripWipMarker(title)) ELSE << "WIP:", " " >> \o Trim(title)

\* the record GitLab answers a PUT with: the title as sent, work_in_progress
\* set when the title starts with the marker
UpdatedRecord(title) ==
  [ title |-> title, work_in_progress |-> (title # << >> /\ Head(title) = "WIP:") ]

\* (mutation) the wip flag of the returned record is not written
ApplyUpdatedRecordKeepingFlag(node, rec) ==
  LET written == [ node EXCEPT !.dataset = ("title" :> rec.title) @@ @ ]
  IN IF node.titleLinks = << >>
     THEN [ node |-> written, threw |-> TRUE ]
     ELSE [ node |-> [ written EXCEPT !.titleLinks = Some(rec.title) ], threw |-> FALSE ]

\* the .then callback of the toggle: [node, threw]; assigning textContent of a
\* missing title link throws a TypeError after the dataset is written
ApplyUpdatedRecord(node, rec) ==
  LET written == [ node EXCEPT !.dataset =
                     ("isWip" :> BoolStr(rec.work_in_progress)) @@ ("title" :> rec.title) @@ @ ]
  IN IF node.titleLinks = << >>
     THEN [ node |-> written, threw |-> TRUE ]
     ELSE [ node |-> [ written EXCEPT !.titleLinks = Some(rec.title) ], threw |-> FALSE ]

Snapshot(node) == [ title |-> node.dataset["title"], isWip |-> node.dataset["isWip"] ]

Writes == { k \in 1..Len(calls) : IsWrite(calls[k].method) }

\* (mutation) a click is dispatched on a disabled control as well
ClickDispatchedAlways(node) == node.disabled \in BOOLEAN

\* a button dispatches click events unless toggleButton.disabled is set
ClickDispatched(node) == ~node.disabled

\* a click on the toggle control of item i: toggleMergeRequestWipStatus up to
\* the pending request. A disabled control dispatches no click. Without a
\* title in the dataset, and without a promise to chain on, the handler throws.
ToggleStart(i) ==
  /\ pc \in { "done", "updateThrew" }
  /\ Cardinality(Writes) < MaxToggles
  /\ IsMergeRequest(items[i])
  /\ ClickDispatched(items[i])
  /\ IF "title" \notin DOMAIN items[i].dataset
     THEN /\ uncaught' = uncaught + 1
          /\ UNCHANGED << calls, inflight >>
     ELSE LET call == sendRequest("PUT", csrfToken, << >>,
                                  IF "iid" \in DOMAIN items[i].dataset
                                  THEN items[i].dataset["iid"] ELSE << "undefined" >>,
                                  NewTitle(IsWipFlag(items[i].dataset),
                                           items[i].dataset["title"]))
          IN /\ calls' = Append(calls, call)
             /\ IF call.outcome = "undefined"
                THEN uncaught' = uncaught + 1 /\ UNCHANGED inflight
                ELSE inflight' = inflight \cup { [ item |-> i, call |-> Len(calls) + 1 ] }
                       /\ UNCHANGED uncaught
  /\ items' = [ items EXCEPT ![i].disabled = TRUE ]
  /\ UNCHANGED << ticket, clipboard, listeners >>
  /\ UNCHANGED << currentProjectId, baseProjectUrl, csrfToken, preferences, pc, attempts,
                  timerPending, page, debugDiv, response, matchLog, snap >>

\* the update succeeds: the .then callback, then the .finally callback
ToggleUpdateSucceeds(t) ==
  /\ t \in inflight
  /\ LET w == ApplyUpdatedRecord(items[t.item], UpdatedRecord(calls[t.call].title))
     IN /\ items' = [ items EXCEPT ![t.item] = [ w.node EXCEPT !.disabled = FALSE ] ]
        /\ snap' = [ snap EXCEPT ![t.item] = Append(@, Snapshot(w.node)) ]
  /\ calls' = [ calls EXCEPT ![t.call] = Fulfilled(@) ]
  /\ inflight' = inflight \ { t }
  /\ UNCHANGED << ticket, clipboard, listeners >>
  /\ UNCHANGED << currentProjectId, baseProjectUrl, csrfToken, preferences, pc, attempts,
                  timerPending, page, debugDiv, response, matchLog, uncaught >>

\* the update fails: sendRequest's catch reports it, .then is skipped, .finally runs
ToggleUpdateFails(t) ==
  /\ t \in inflight
  /\ \E why \in Failures : calls' = [ calls EXCEPT ![t.call] = Rejected(@) ]
  /\ items' = [ items EXCEPT ![t.item].disabled = FALSE ]
  /\ inflight' = inflight \ { t }
  /\ UNCHANGED << ticket, clipboard, listeners >>
  /\ UNCHANGED << currentProjectId, baseProjectUrl, csrfToken, preferences, pc, attempts,
                  timerPending, page, debugDiv, response, matchLog, uncaught, snap >>

TitleTokens == { "WIP:", " ", "a" }

\* the titles a toggled merge request may carry
Titles == UNION { [ 1..n -> TitleTokens ] : n \in 0..MaxTitleLen }

\* the state the run is in after one merge request was fetched and written on
\* its list item: the toggle starts from every title and flag
InitToggle ==
  \E title \in Titles, wip \in BOOLEAN, link \in BOOLEAN, display \in BOOLEAN :
    LET mr == MergeRequest(1, title, Some(<< "ann" >>), wip, << "feature" >>)
        node == [ ListItem("mrlist", Ref(1), 0, TRUE, 0) EXCEPT
                    !.titleLinks = IF link THEN Some(title) ELSE None ]
        st == updateMergeRequestsNodes(<< node >>, << mr >>, display)
    IN /\ page = << node >>
       /\ items = st.doc
       /\ matchLog = st.log
       /\ response = Some(<< mr >>)
       /\ preferences = Some([ display_source_and_target_branches |-> display ])
       /\ calls = << Fulfilled(sendRequest("GET", csrfToken, << ToStr(1) >>, << >>, << >>)) >>
       /\ snap = << << Snapshot(st.doc[1]) >> >>
  /\ currentProjectId = TRUE
  /\ baseProjectUrl = TRUE
  /\ csrfToken \in BOOLEAN
  /\ pc = "done"
  /\ attempts = 1
  /\ timerPending = FALSE
  /\ debugDiv = FALSE
  /\ inflight = {}
  /\ uncaught = 0
  /\ ticket = None
  /\ clipboard = None
  /\ listeners = NoListeners

NextToggle ==
  \/ \E i \in 1..Len(items) : ToggleStart(i)
  \/ \E t \in inflight : ToggleUpdateSucceeds(t)
  \/ \E t \in inflight : ToggleUpdateFails(t)

SpecToggle == InitToggle /\ [][NextToggle]_vars

----------------------------------------------------------------------------
(* The Jira ticket id and the copied text. Here a branch name or a title is a
   sequence of characters; a token that is no upper-case letter, digit or
   hyphen stands for text the pattern has no part in. *)

UpperCase ==
  { "A", "B", "C", "D", "E", "F", "G", "H", "I", "J", "K", "L", "M",
    "N", "O", "P", "Q", "R", "S", "T", "U", "V", "W", "X", "Y", "Z" }

Digits == { "0", "1", "2", "3", "4", "5", "6", "7", "8", "9" }

IsUpperAt(s, j) == j <= Len(s) /\ s[j] \in UpperCase

IsDigitAt(s, j) == j <= Len(s) /\ s[j] \in Digits

MaxOf(S) == IF S = {} THEN 0 ELSE CHOOSE i \in S : \A j \in S : j <= i

\* \d+ is greedy: the last position of the run of digits that position j is in
RECURSIVE DigitsEnd(_, _)
DigitsEnd(s, j) == IF IsDigitAt(s, j + 1) THEN DigitsEnd(s, j + 1) ELSE j

\* the numbers k of letters with which [A-Z]{1,10}-\d matches at position p
LetterCounts(s, p) ==
  { k \in 1..MaxTicketLetters :
      /\ \A j \in p..(p + k - 1) : IsUpperAt(s, j)
      /\ p + k <= Len(s)
      /\ s[p + k] = "-"
      /\ IsDigitAt(s, p + k + 1) }

\* jiraTicketIdRegex.exec(str): None for null, else Some(results[0]), the
\* leftmost match, with as many letters and digits as can be
RegExpExec(s) ==
  LET starts == { p \in 1..Len(s) : LetterCounts(s, p) # {} }
  IN IF starts = {} THEN None
     ELSE LET p == MinOf(starts)
          IN Some(SubSeq(s, p, DigitsEnd(s, p + MaxOf(LetterCounts(s, p)) + 1)))

\* (mutation) the title is searched before the source branch name
findFirstJiraTicketIdTitleFirst(mr) ==
  IF RegExpExec(mr.title) # None THEN RegExpExec(mr.title)
  ELSE RegExpExec(mr.source_branch)

\* None for null, else Some(ticket id)
findFirstJiraTicketId(mr) ==
  IF RegExpExec(mr.source_branch) # None THEN RegExpExec(mr.source_branch)
  ELSE IF RegExpExec(mr.title) # None THEN RegExpExec(mr.title)
  ELSE None

\* mergeRequestNode.dataset.<key>, converted to a string by replace()
DatasetValue(node, key) ==
  IF key \in DOMAIN node.dataset THEN node.dataset[key] ELSE << "undefined" >>

\* the placeholders object of buildMergeRequestInfoText
Placeholders(node) ==
  ("{MR_TITLE}" :> DatasetValue(node, "title"))
    @@ ("{MR_ID}" :> DatasetValue(node, "iid"))
    @@ ("{MR_URL}" :> DatasetValue(node, "url"))
    @@ ("{MR_DIFFS_URL}" :> DatasetValue(node, "diffsUrl"))
    @@ ("{MR_AUTHOR_NAME}" :> DatasetValue(node, "authorName"))
    @@ ("{MR_STATUS}" :> DatasetValue(node, "status"))
    @@ ("{MR_SOURCE_BRANCH_NAME}" :> DatasetValue(node, "sourceBranchName"))
    @@ ("{MR_TARGET_BRANCH_NAME}" :> DatasetValue(node, "targetBranchName"))
    @@ ("{MR_JIRA_TICKET_ID}" :>
          (IF "jiraTicketId" \in DOMAIN node.dataset
           THEN node.dataset["jiraTicketId"] ELSE << >>))
    @@ ("{MR_JIRA_TICKET_URL}" :>
          (IF "jiraTicketUrl" \in DOMAIN node.dataset
           THEN node.dataset["jiraTicketUrl"] ELSE << >>))

\* format.replace(placeholdersReplaceRegex, ...): a format is a sequence of
\* tokens, a placeholder being one token
RECURSIVE ReplacePlaceholders(_, _)
ReplacePlaceholders(format, values) ==
  IF format = << >> THEN << >>
  ELSE (IF Head(format) \in DOMAIN values THEN values[Head(format)] ELSE << Head(format) >>)
         \o ReplacePlaceholders(Tail(format), values)

buildMergeRequestInfoText(node, format) ==
  Trim(ReplacePlaceholders(format, Placeholders(node)))

RECURSIVE Flatten(_)
Flatten(chunks) == IF chunks = << >> THEN << >> ELSE Head(chunks) \o Flatten(Tail(chunks))

\* a run of ten letters, so that runs longer than the pattern allows occur
TenLetters == [ j \in 1..10 |-> "A" ]

BranchChunks == { << "A" >>, TenLetters, << "-", "1" >>, << "-" >>, << "1" >> }

TitleChunks == { << "B", "-", "2" >>, << "x" >> }

\* the source branch names and titles of the merge request that is searched
Branches ==
  { Flatten(c) : c \in UNION { [ 1..n -> BranchChunks ] : n \in 0..MaxBranchChunks } }
    \cup { ExampleBranch }

JiraTitles ==
  { Flatten(c) : c \in UNION { [ 1..n -> TitleChunks ] : n \in 0..MaxTitleChunks } }

\* preferences.copy_mr_info_format
Formats ==
  { << "{MR_JIRA_TICKET_ID}" >>,
    << " ", "{MR_ID}", ":", "{MR_JIRA_TICKET_ID}", " " >> }

\* the state the run is in after one merge request was fetched and written on
\* its list item, for every source branch name and title
InitCopy ==
  \E branch \in Branches, title \in JiraTitles, format \in Formats :
    LET mr == MergeRequest(1, title, Some(<< "ann" >>), FALSE, branch)
        node == ListItem("mrlist", Ref(1), 0, TRUE, 0)
        st == updateMergeRequestsNodes(<< node >>, << mr >>, TRUE)
    IN /\ page = << node >>
       /\ items = st.doc
       /\ matchLog = st.log
       /\ response = Some(<< mr >>)
       /\ preferences = Some([ display_source_and_target_branches |-> TRUE,
                               copy_mr_info_format |-> format ])
       /\ calls = << Fulfilled(sendRequest("GET", csrfToken, << ToStr(1) >>, << >>, << >>)) >>
       /\ snap = << << Snapshot(st.doc[1]) >> >>
  /\ currentProjectId = TRUE
  /\ baseProjectUrl = TRUE
  /\ csrfToken = TRUE
  /\ pc = "done"
  /\ attempts = 1
  /\ timerPending = FALSE
  /\ debugDiv = FALSE
  /\ inflight = {}
  /\ uncaught = 0
  /\ ticket = None
  /\ clipboard = None
  /\ listeners = NoListeners

\* findFirstJiraTicketId is applied to the fetched merge request
FindTicket ==
  /\ ticket = None
  /\ ticket' = Some(findFirstJiraTicketId(response[1][1]))
  /\ UNCHANGED << clipboard, listeners, currentProjectId, baseProjectUrl, csrfToken, preferences, pc,
                  attempts, timerPending, page, items, calls, debugDiv, response,
                  matchLog, inflight, uncaught, snap >>

\* buildMergeRequestInfoText is applied to list item i
CopyInfo(i) ==
  /\ clipboard = None
  /\ IsMergeRequest(items[i])
  /\ clipboard' = Some(buildMergeRequestInfoText(items[i],
                                                 preferences[1].copy_mr_info_format))
  /\ UNCHANGED << ticket, listeners, currentProjectId, baseProjectUrl, csrfToken, preferences, pc,
                  attempts, timerPending, page, items, calls, debugDiv, response,
                  matchLog, inflight, uncaught, snap >>

NextCopy ==
  \/ FindTicket
  \/ \E i \in 1..Len(items) : CopyInfo(i)

SpecCopy == InitCopy /\ [][NextCopy]_vars

\* setTimeout runs its callback: a scheduled re-check does happen
LiveSpec == Spec /\ WF_vars(TimerFires)

----------------------------------------------------------------------------
(* Vocabulary of the properties *)

PassEnded == pc \in { "done", "updateThrew" }

PollerFound == pc \in { "fetching", "fetchFailed", "done", "updateThrew" }

PollerExhausted == pc = "exhausted"

DisplayEnabled ==
  preferences # << >> /\ preferences[1].display_source_and_target_branches

\* the identity token of a rendered item is that of a record
TokenIs(it, mr) == it.refs # << >> /\ IdOfReference(it.refs[1]) = ToStr(mr.iid)

\* the AnnotatedState a record stands for
AnnotatedState(mr) ==
  ("title" :> mr.title) @@ ("iid" :> ToStr(mr.iid)) @@ ("url" :> mr.web_url)
    @@ ("diffsUrl" :> (mr.web_url \o << "/diffs" >>))
    @@ ("authorName" :> (IF mr.author = << >> THEN << "undefined" >> ELSE mr.author[1]))
    @@ ("status" :> mr.state) @@ ("sourceBranchName" :> mr.source_branch)
    @@ ("targetBranchName" :> mr.target_branch)
    @@ ("isWip" :> BoolStr(mr.work_in_progress))

Populated(it, mr) ==
  \A key \in DOMAIN AnnotatedState(mr) :
    key \in DOMAIN it.dataset /\ it.dataset[key] = AnnotatedState(mr)[key]

\* .project-ref-path nodes the extension injected into the item
InjectedPaths(it) == Cardinality({ k \in 1..Len(it.blocks) : it.blocks[k].path })

----------------------------------------------------------------------------
(* C1 - C10 *)

\* C1: after a reconciliation pass, every fetched record whose iid is the
\* identity token of exactly one rendered item has its nine fields written on
\* that item.
C1_MatchedRecordPopulatesItem ==
  pc = "done" =>
    \A k \in 1..Len(response[1]) :
      LET mr == response[1][k]
          matching == { i \in 1..Len(items) : TokenIs(items[i], mr) }
      IN Cardinality(matching) = 1 => \A i \in matching : Populated(items[i], mr)

\* C2: with branch display enabled, after reconciliation no item holds more
\* than one injected branch-info node.
C2_AtMostOneInjectedNode ==
  (PassEnded /\ DisplayEnabled) => \A i \in 1..Len(items) : InjectedPaths(items[i]) <= 1

\* C3: the poller never makes more than maxAttempts attempts, schedules a
\* re-check only while it has found nothing in fewer than maxAttempts attempts.
C3_AttemptsBounded ==
  /\ attempts <= maxAttempts
  /\ timerPending => (attempts < maxAttempts /\ pc = "searching")
  /\ pc = "searching" => timerPending

\* C3: the poller makes at most maxAttempts attempts, schedules no re-check
\* after the last one or after items were found, and every run of it ends in
\* Found or Exhausted.
C3_PollerTerminates ==
  /\ []C3_AttemptsBounded
  /\ (pc = "searching") ~> (PollerFound \/ PollerExhausted)

C3_Witness == PollerExhausted /\ attempts = maxAttempts /\ ~timerPending

\* C4: a run that finds no item in maxAttempts attempts ends exhausted, without
\* an exception and without a request; a request is only issued by an attempt
\* that found items, and carries one identifier per item found, at least one.
C4_FetchOnlyWhenFound ==
  /\ PollerExhausted => (calls = << >> /\ uncaught = 0 /\ attempts = maxAttempts)
  /\ calls # << >> => PollerFound
  /\ \A k \in 1..Len(calls) :
       calls[k].method = "GET" =>
         /\ calls[k].ids # << >>
         /\ Len(calls[k].ids) = Len(FirstSelector(page, 1))

C4_Witness == PollerExhausted /\ calls = << >> /\ items # << >>

\* C5 (as stated): for every annotated title and wip flag, the second of two
\* successful toggles restores the title (up to the spacing around the marker)
\* and the flag the first one started from.
HasWipMarker(title) == title # << >> /\ Head(title) = "WIP:"

MarkerNormalised(title) ==
  IF HasWipMarker(Trim(title))
  THEN << "WIP:", " " >> \o Trim(Tail(Trim(title)))
  ELSE Trim(title)

Restored(before, after) ==
  /\ MarkerNormalised(after.title) = MarkerNormalised(before.title)
  /\ after.isWip = before.isWip

C5_ToggleInvolutive ==
  \A i \in 1..Len(snap) : Len(snap[i]) >= 3 => Restored(snap[i][1], snap[i][3])

\* the flag says whether the title starts with the marker, and the title
\* carries the marker at most once
WellMarked(s) ==
  /\ s.isWip = BoolStr(HasWipMarker(s.title))
  /\ ~HasWipMarker(Trim(StripWipMarker(s.title)))

\* C5 (amended): for every annotated title that carries the marker at most
\* once and whose wip flag says whether it carries it, the second of two
\* successful toggles restores the title (up to the spacing around the marker)
\* and the flag.
C5_ToggleInvolutiveWhenWellMarked ==
  \A i \in 1..Len(snap) :
    (Len(snap[i]) >= 3 /\ WellMarked(snap[i][1])) => Restored(snap[i][1], snap[i][3])

C5_Witness ==
  \E i \in 1..Len(snap) :
    /\ Len(snap[i]) >= 3
    /\ WellMarked(snap[i][1])
    /\ snap[i][2] # snap[i][1]
    /\ Restored(snap[i][1], snap[i][3])

\* C6: a write call made without anti-forgery token is rejected to the caller,
\* issues no network request and logs a diagnostic.
C6_WriteWithoutTokenRejected ==
  ~csrfToken =>
    \A k \in Writes :
      calls[k].outcome = "rejected" /\ calls[k].sent = 0 /\ calls[k].logs >= 1

\* C7: a rendered item whose identity token is the iid of no fetched record is
\* left as the host rendered it by a reconciliation pass.
C7_UnmatchedItemUntouched ==
  PassEnded =>
    \A i \in 1..Len(items) :
      (items[i].refs # << >> /\ \A k \in 1..Len(response[1]) : ~TokenIs(page[i], response[1][k]))
        => items[i] = page[i]

\* C8: a fetched record that no item matches, by its data-id / data-qa-issue-id
\* / data-iid attribute or by its identity token, is dropped; a record matched
\* by identity token only goes to the first such item in document order.
MatchedByAttribute(it, mr) ==
  \/ "id" \in DOMAIN it.dataset /\ it.dataset["id"] = ToStr(mr.id)
  \/ "qaIssueId" \in DOMAIN it.dataset /\ it.dataset["qaIssueId"] = ToStr(mr.id)
  \/ "iid" \in DOMAIN it.dataset /\ it.dataset["iid"] = ToStr(mr.iid)

C8_UnmatchedRecordDropped ==
  PassEnded =>
    \A k \in 1..Len(matchLog) :
      LET mr == response[1][k]
          byAttribute == { i \in 1..Len(page) :
                             IsMergeRequest(page[i]) /\ MatchedByAttribute(page[i], mr) }
          byToken == { i \in 1..Len(page) : IsMergeRequest(page[i]) /\ TokenIs(page[i], mr) }
      IN /\ (byAttribute = {} /\ byToken = {}) => matchLog[k] = 0
         /\ (byAttribute = {} /\ byToken # {}) => matchLog[k] = MinOf(byToken)

\* C9: whenever no update of a toggle is pending for an item, its toggle
\* control is enabled (every toggle that disabled it has re-enabled it).
C9_ControlReenabled ==
  \A i \in 1..Len(items) :
    (\A t \in inflight : t.item # i) => ~items[i].disabled

\* C10: every failed call is rejected to the caller, logged once and alerted
\* once, and no call issues more than one network request.
C10_FailureReportedOnce ==
  \A k \in 1..Len(calls) :
    /\ calls[k].sent <= 1
    /\ calls[k].outcome \in { "rejected", "undefined" } =>
         (calls[k].outcome = "rejected" /\ calls[k].logs = 1 /\ calls[k].alerts = 1)

----------------------------------------------------------------------------
(* C11 - C20 *)

\* C11: a run without project id or without base project URL aborts in the
\* constructor without an exception: the preferences are never loaded, the
\* poller makes no attempt and schedules none, and no API call is issued.
C11_AbortedRunDoesNothing ==
  ~(currentProjectId /\ baseProjectUrl) =>
    /\ pc \in { "boot", "aborted" }
    /\ preferences = None
    /\ attempts = 0
    /\ ~timerPending
    /\ calls = << >>
    /\ response = None
    /\ uncaught = 0

C11_Witness == pc = "aborted" /\ ~baseProjectUrl /\ currentProjectId /\ items # << >>

\* C12: in a run that aborts for lack of project id or base project URL the
\* document is as the host rendered it: nothing was appended to the body and
\* no list item was changed.
C12_NoAlterationOnAbort ==
  pc = "aborted" => (~debugDiv /\ items = page)

\* the nine fields are written on the item
FullyAnnotated(it) == DOMAIN AnnotatedState(MergeRequest(0, << >>, None, FALSE, << >>)) \subseteq DOMAIN it.dataset

\* C13: after a reconciliation pass, every record of the batch that has an
\* author and whose iid is the identity token of a .merge-request item was
\* processed, whatever happened to the records before it: it was matched to an
\* item, that item carries the nine fields, and with branch display enabled
\* and an .issuable-main-info in the item, the item holds the record's branch
\* info.
C13_SiblingFailureDoesNotAbort ==
  PassEnded =>
    \A k \in 1..Len(response[1]) :
      LET mr == response[1][k]
      IN (mr.author # << >>
            /\ \E i \in 1..Len(page) : IsMergeRequest(page[i]) /\ TokenIs(page[i], mr))
         => /\ k <= Len(matchLog)
            /\ matchLog[k] # 0
            /\ FullyAnnotated(items[matchLog[k]])
            /\ (DisplayEnabled /\ items[matchLog[k]].mainInfo)
                 => \E b \in 1..Len(items[matchLog[k]].blocks) :
                      items[matchLog[k]].blocks[b].branch = mr.source_branch

\* positions p to e of s hold a ticket id: 1 to 10 upper-case letters, a
\* hyphen, one or more digits
TicketAt(s, p, e) ==
  \E k \in 1..10 :
    /\ p + k + 1 <= e
    /\ e <= Len(s)
    /\ s[p + k] = "-"
    /\ \A j \in p..(p + k - 1) : s[j] \in UpperCase
    /\ \A j \in (p + k + 1)..e : s[j] \in Digits

\* where the ticket ids that start at position p of s end
TicketEnds(s, p) == { e \in p..Len(s) : TicketAt(s, p, e) }

\* the first match of the pattern in s: the ticket id that starts leftmost,
\* taken as far as it goes
FirstTicket(s) ==
  LET starts == { p \in 1..Len(s) : TicketEnds(s, p) # {} }
  IN IF starts = {} THEN None
     ELSE Some(SubSeq(s, MinOf(starts), MaxOf(TicketEnds(s, MinOf(starts)))))

\* the ticket id of a record: that of its source branch name, else of its title
TicketOf(mr) ==
  IF FirstTicket(mr.source_branch) # None THEN FirstTicket(mr.source_branch)
  ELSE FirstTicket(mr.title)

\* C14: findFirstJiraTicketId returns the first ticket id of the source branch
\* name when that name holds one, whatever the title holds; else the first
\* ticket id of the title; and nothing (null) when neither holds one.
C14_TicketFromBranchThenTitle ==
  ticket # None => ticket[1] = TicketOf(response[1][1])

\* both hold a ticket id, and the branch name starts with a run of letters
\* longer than the pattern allows
C14_Witness ==
  /\ ticket # None
  /\ FirstTicket(response[1][1].title) # None
  /\ FirstTicket(response[1][1].source_branch) # None
  /\ Len(response[1][1].source_branch) > MaxTicketLetters + 2
  /\ ticket[1] = Some(SubSeq(TenLetters, 1, 10) \o << "-", "1" >>)

\* the text of a ticket id, empty when there is none
TicketText(t) == IF t = None THEN << >> ELSE t[1]

\* C15: the text built for a reconciled item is the format with the ticket id
\* placeholder replaced by the ticket id of the record (of its source branch
\* name, else of its title), and by the empty string only when the record has
\* none.
C15_TicketSubstituted ==
  clipboard # None =>
    clipboard[1] =
      Trim(ReplacePlaceholders(
             preferences[1].copy_mr_info_format,
             ("{MR_JIRA_TICKET_ID}" :> TicketText(TicketOf(response[1][1])))
               @@ Placeholders(items[1])))

\* the structural matchers that yield a result on a document
MatchersWithResult(doc) ==
  { sel \in 1..4 : \E i \in 1..Len(doc) : SelectorMatches(sel, doc[i]) }

\* the identity tokens of the items that matcher sel yields, in document order
RECURSIVE TokensOfMatcher(_, _)
TokensOfMatcher(doc, sel) ==
  IF doc = << >> THEN << >>
  ELSE (IF SelectorMatches(sel, Head(doc)) THEN << IdOfReference(Head(doc).refs[1]) >>
        ELSE << >>) \o TokensOfMatcher(Tail(doc), sel)

\* C16: an attempt in which some matcher yields a result goes to Found at
\* once and issues one fetch that carries the identity tokens of the items of
\* the first such matcher, one per item, and schedules no re-check; once in
\* Found, no further attempt is made and no further call issued.
C16_FoundInSameAttempt ==
  /\ [][ (attempts' = attempts + 1 /\ MatchersWithResult(items) # {}) =>
           /\ pc' = "fetching"
           /\ ~timerPending'
           /\ Len(calls') = Len(calls) + 1
           /\ calls'[Len(calls')].method = "GET"
           /\ calls'[Len(calls')].sent = 1
           /\ calls'[Len(calls')].ids =
                TokensOfMatcher(items, MinOf(MatchersWithResult(items))) ]_vars
  /\ [][ PollerFound =>
           (attempts' = attempts /\ Len(calls') = 1 /\ ~timerPending' /\ PollerFound') ]_vars

\* found at the last attempt, by the second matcher, which yields one of the
\* two items that carry a reference
C16_Witness ==
  /\ pc = "fetching"
  /\ attempts = maxAttempts
  /\ MinOf(MatchersWithResult(page)) = 2
  /\ Len(page) = 2
  /\ \A i \in 1..2 : page[i].refs # << >>
  /\ Len(calls) = 1
  /\ Len(calls[1].ids) = 1

\* C17: the list items are as the host rendered them, and no record was
\* matched, unless the preferences are loaded and the fetch has delivered its
\* batch; in a run whose fetch failed they stay so.
C17_ReconcileOnlyAfterBatch ==
  /\ (items # page \/ matchLog # << >> \/ response # None) =>
       /\ preferences # None
       /\ calls # << >>
       /\ calls[Len(calls)].outcome = "resolved"
       /\ response # None
       /\ PassEnded
  /\ pc = "fetchFailed" => (items = page /\ matchLog = << >> /\ response = None)

\* the fetch failed on a page with a native branch path, display enabled
C17_Witness ==
  /\ pc = "fetchFailed"
  /\ DisplayEnabled
  /\ calls[Len(calls)].outcome = "rejected"
  /\ \E i \in 1..Len(items) : items[i].layout = "mrlist" /\ items[i].nativePaths = 1

\* C18: after a reconciliation pass, the item a record was last written on
\* carries the nine fields of that record, an absent author as "undefined".
C18_WriteIsTotal ==
  PassEnded =>
    \A k \in 1..Len(matchLog) :
      (matchLog[k] # 0 /\ \A l \in (k + 1)..Len(matchLog) : matchLog[l] # matchLog[k])
        => Populated(items[matchLog[k]], response[1][k])

\* the update of a toggle of item i is rejected in this step
UpdateRejectedFor(i) ==
  \E t \in inflight :
    t.item = i /\ calls[t.call].outcome = "pending" /\ calls'[t.call].outcome = "rejected"

\* a toggle is started in this step and its update call fails at once, no
\* request being sent
UpdateRefused ==
  /\ Len(calls') = Len(calls) + 1
  /\ IsWrite(calls'[Len(calls')].method)
  /\ calls'[Len(calls')].outcome # "pending"

\* C19: a step in which the update call of a toggle fails leaves the item as
\* it was before the toggle (dataset, visible title and all the rest), with its
\* control enabled.
C19_FailedToggleChangesNothing ==
  [][ \A i \in 1..Len(items) :
        (UpdateRejectedFor(i) \/ UpdateRefused)
          => items'[i] = [ items[i] EXCEPT !.disabled = FALSE ] ]_vars

\* the control of item i is disabled in this step: a toggle of it starts
ToggleStartedFor(i) == ~items[i].disabled /\ items'[i].disabled

\* the title a toggle is to send: without its leading marker when the wip flag
\* is "true", with the marker put in front otherwise
ExpectedNewTitle(dataset) ==
  IF dataset["isWip"] = << "true" >>
  THEN (IF HasWipMarker(dataset["title"]) THEN Trim(Tail(dataset["title"]))
        ELSE Trim(dataset["title"]))
  ELSE << "WIP:", " " >> \o Trim(dataset["title"])

\* what is left of a list item when the two fields a toggle may write, the
\* visible title and the state of the control are put aside
ToggleFrame(node) ==
  [ node EXCEPT !.dataset = [ key \in (DOMAIN @) \ { "isWip", "title" } |-> @[key] ],
                !.titleLinks = None,
                !.disabled = FALSE ]

\* C20: a step that starts a toggle issues one update call, a PUT for the
\* annotated iid with the new title as only data, and changes nothing else of
\* the item; a step in which the update succeeds sets the wip flag, the title
\* and the text of the title link (where the item has one) to the values of
\* the returned record and leaves every other field of the item as it was.
C20_ToggleWritesOnlyTitleAndFlag ==
  /\ [][ \A i \in 1..Len(items) :
           ToggleStartedFor(i) =>
             /\ Len(calls') = Len(calls) + 1
             /\ calls'[Len(calls')].method = "PUT"
             /\ calls'[Len(calls')].ids = << >>
             /\ calls'[Len(calls')].iid = items[i].dataset["iid"]
             /\ calls'[Len(calls')].title = ExpectedNewTitle(items[i].dataset)
             /\ calls'[Len(calls')].sent <= 1
             /\ items'[i] = [ items[i] EXCEPT !.disabled = TRUE ] ]_vars
  /\ [][ \A t \in inflight :
           (calls[t.call].outcome = "pending" /\ calls'[t.call].outcome = "resolved") =>
             LET rec == UpdatedRecord(calls[t.call].title)
                 node == items'[t.item]
             IN /\ node.dataset["isWip"] = BoolStr(rec.work_in_progress)
                /\ node.dataset["title"] = rec.title
                /\ items[t.item].titleLinks # None => node.titleLinks = Some(rec.title)
                /\ items[t.item].titleLinks = None => node.titleLinks = None
                /\ DOMAIN node.dataset = DOMAIN items[t.item].dataset
                /\ ToggleFrame(node) = ToggleFrame(items[t.item])
                /\ Len(calls') = Len(calls) ]_vars

\* a toggle has succeeded and changed title, flag and visible title, on an
\* item that holds injected branch info
C20_Witness ==
  /\ Len(snap[1]) >= 2
  /\ snap[1][2].title # snap[1][1].title
  /\ snap[1][2].isWip # snap[1][1].isWip
  /\ inflight = {}
  /\ items[1].titleLinks = Some(items[1].dataset["title"])
  /\ items[1].dataset["title"] = calls[Len(calls)].title
  /\ items[1].blocks # << >>

----------------------------------------------------------------------------
(* C21 - C25 *)

\* the source branches of the records with an author that were written on
\* item n, in the order of the batch
RECURSIVE BranchesWrittenOn(_, _)
BranchesWrittenOn(n, k) ==
  IF k > Len(matchLog) THEN << >>
  ELSE (IF matchLog[k] = n /\ response[1][k].author # << >>
        THEN << response[1][k].source_branch >> ELSE << >>)
         \o BranchesWrittenOn(n, k + 1)

\* C21: after a pass with branch display enabled, an item without
\* .issuable-main-info holds no injected block; a record with an author that
\* was written on such an item left it with the nine fields and did not end
\* the pass (the next record was processed, and the pass ended without an
\* exception if no record lacked its author); an item with the sub-region
\* holds one block per record written on it, appended in the order of the
\* batch.
C21_MissingMainInfoSkipsInjection ==
  (PassEnded /\ DisplayEnabled) =>
    /\ \A n \in 1..Len(items) :
         IF items[n].mainInfo
         THEN [ b \in 1..Len(items[n].blocks) |-> items[n].blocks[b].branch ]
                = BranchesWrittenOn(n, 1)
         ELSE items[n].blocks = << >>
    /\ \A k \in 1..Len(matchLog) :
         (matchLog[k] # 0 /\ ~items[matchLog[k]].mainInfo /\ response[1][k].author # << >>)
           => /\ "isWip" \in DOMAIN items[matchLog[k]].dataset
              /\ k < Len(response[1]) => Len(matchLog) > k
    /\ (\A k \in 1..Len(response[1]) : response[1][k].author # << >>)
         => (pc = "done" /\ Len(matchLog) = Len(response[1]))

\* a record was written on an item without the sub-region, and a later one was
\* injected into another item
C21_Witness ==
  /\ pc = "done"
  /\ DisplayEnabled
  /\ \E k, l \in 1..Len(matchLog) :
       /\ k < l
       /\ matchLog[k] # 0
       /\ matchLog[l] # 0
       /\ ~items[matchLog[k]].mainInfo
       /\ FullyAnnotated(items[matchLog[k]])
       /\ items[matchLog[l]].mainInfo
       /\ Len(items[matchLog[l]].blocks) = 1
       /\ items[matchLog[l]].blocks[1].branch = response[1][l].source_branch

\* the names of the nine fields of AnnotatedState
AnnotatedFields == DOMAIN AnnotatedState(MergeRequest(0, << >>, None, FALSE, << >>))

\* C22: after a pass with branch display disabled, every item is as the host
\* rendered it but for its data attributes: no node was removed from it and
\* none inserted; attributes were written only on items a record was matched
\* to, and only the fields of AnnotatedState.
C22_DisabledDisplayOnlyAnnotates ==
  (PassEnded /\ ~DisplayEnabled) =>
    /\ Len(items) = Len(page)
    /\ \A i \in 1..Len(items) :
         /\ [ items[i] EXCEPT !.dataset = page[i].dataset ] = page[i]
         /\ items[i] # page[i] => \E k \in 1..Len(matchLog) : matchLog[k] = i
         /\ DOMAIN items[i].dataset \subseteq (DOMAIN page[i].dataset \cup AnnotatedFields)
         /\ \A key \in DOMAIN page[i].dataset :
              key \notin AnnotatedFields =>
                (key \in DOMAIN items[i].dataset /\ items[i].dataset[key] = page[i].dataset[key])

\* an item with a native branch path and the sub-region was annotated and
\* kept its path, and got no block
C22_Witness ==
  /\ pc = "done"
  /\ ~DisplayEnabled
  /\ \E i \in 1..Len(items) :
       /\ items[i].nativePaths = 1
       /\ items[i].mainInfo
       /\ FullyAnnotated(items[i])
       /\ items[i].blocks = << >>

\* C23: once the run is set up (the reconciliation pass is over), each of the
\* three handlers has been added exactly once to its trigger elements, so that
\* one click runs the action once.
C23_HandlersBoundOnce ==
  PassEnded => \A h \in Handlers : listeners[h] = 1

\* C24: an item that carries an annotated iid shows that number in its
\* reference text.
C24_AnnotatedIidIsOwnToken ==
  \A i \in 1..Len(items) :
    "iid" \in DOMAIN items[i].dataset =>
      /\ items[i].refs # << >>
      /\ items[i].dataset["iid"] = IdOfReference(items[i].refs[1])

\* the updates of toggles of item i that are in flight
InFlightFor(i) == { t \in inflight : t.item = i }

\* C25: at most one update of a toggle is in flight per item, and while one is
\* the control of the item is disabled and the update is that of the last
\* write call, pending; a toggle only starts on an item with no update in
\* flight, and the control stays disabled until the outcome is handled.
C25_OneUpdateInFlight ==
  /\ [](\A i \in 1..Len(items) :
          /\ Cardinality(InFlightFor(i)) <= 1
          /\ \A t \in InFlightFor(i) :
               items[i].disabled /\ calls[t.call].outcome = "pending")
  /\ [][ \A i \in 1..Len(items) :
           /\ ToggleStartedFor(i) => InFlightFor(i) = {}
           /\ (InFlightFor(i) # {} /\ ~items'[i].disabled)
                => \E t \in InFlightFor(i) : calls'[t.call].outcome # "pending" ]_vars

\* a second toggle of the item is pending after the first one was handled
C25_Witness ==
  /\ Cardinality(Writes) = 2
  /\ Cardinality(InFlightFor(1)) = 1
  /\ items[1].disabled
  /\ \E k \in Writes : calls[k].outcome \in { "resolved", "rejected" }

====
